---- MODULE Spec2Model ----
(***************************************************************************)
(* Append-only weighted graph store with two shortest-path queries:        *)
(*   best_path      (src/src/dijkstra/mod.rs) closed set, several targets  *)
(*   cheapest_path  (src/src/graph/mod.rs)    no closed set, one target    *)
(* Node and edge ids are the 0-based indices of the source; the sequences  *)
(* of TLA+ are 1-based, so node(id) is nodes[id + 1].                      *)
(* Costs are natural numbers (the Cost::Type of the source is generic;     *)
(* the bounds keep every sum far below any machine width).                 *)
(***************************************************************************)
EXTENDS Integers, Sequences, FiniteSets, TLC

\* ------------------------------------------------------------------ bounds
MaxNodes == 3
MaxEdges == 3
MaxCost == 1
MaxTargets == 2
BothNodes == 4
BothEdges == 5

\* ------------------------------------------------------------------ Option
None == <<>>
Some(v) == <<v>>
is_some(o) == Len(o) = 1
is_none(o) == Len(o) = 0
unwrap(o) == o[1]

Range(s) == {s[i] : i \in 1..Len(s)}

VARIABLES
    nodes,          \* Graph.nodes : Vec<Node>
    edges,          \* Graph.edges : Vec<Edge>
    states,         \* Graph.states: Vec<NodeState>
    props,          \* Graph.props : Vec<EdgeProps>
    node_rets,      \* the values returned by the insert_node calls, in call order
    edge_rets,      \* per insert_edge call: the returned id and the arguments
    pc,             \* "idle" | "best_path" | "cheapest_path" | "done"
    fn,             \* the query that is running or has just returned
    source,         \* its source argument
    targets,        \* its targets argument (cheapest_path: <<target>>)
    best_incoming,  \* scratch table of the running query
    best_cost,      \* scratch table (best_path only)
    is_closed,      \* scratch table (best_path only)
    queue,          \* priority_queue::Heap of the running query
    result,         \* what the query returned
    hist,           \* observer of the running query: the queue.insert calls made
                    \* by relaxations, the extract_min calls, and the last pop
    prev            \* observer: the previous query and what it returned

store == <<nodes, edges, states, props>>
rets == <<node_rets, edge_rets>>
scratch == <<best_incoming, best_cost, is_closed, queue>>
query == <<pc, fn, source, targets, result>>
observers == <<hist, prev>>
vars == <<nodes, edges, states, props, node_rets, edge_rets, pc, fn, source,
          targets, best_incoming, best_cost, is_closed, queue, result, hist, prev>>

\* Nothing pushed or popped yet.
hist_new == [pushes |-> 0, pops |-> 0, stale |-> FALSE, tried |-> 0]

\* After one iteration of a search loop that popped one entry of q_before
\* and left q_after: was_closed tells whether the popped node was closed
\* already, tried counts the outgoing edges whose candidate cost was compared.
hist_pop(h, was_closed, tried, q_before, q_after) ==
    [pushes |-> h.pushes + (Len(q_after) - (Len(q_before) - 1)),
     pops |-> h.pops + 1,
     stale |-> was_closed,
     tried |-> tried]

no_prev == [fn |-> "none", source |-> 0, targets |-> <<>>,
            result |-> [kind |-> "pending", path |-> <<>>]]

\* ------------------------------------------------------------- graph store
NodeIds == 0..(Len(nodes) - 1)
EdgeIds == 0..(Len(edges) - 1)

node(id) == nodes[id + 1]
state(id) == states[id + 1]
edge(id) == edges[id + 1]
edge_props(id) == props[id + 1]

\* The test fixture's node state: State { name, cost: Option<f64> }, of which
\* only the cost field is kept.
state_cost(s) == s.cost

\* Props::cost(): the edge props are the cost itself.
props_cost(p) == p.cost

RECURSIVE cost(_)
cost(path) ==
    IF path = <<>> THEN 0
    ELSE props_cost(edge_props(Head(path))) + cost(Tail(path))

new_node(id) == [id |-> id, incoming |-> <<>>, outgoing |-> <<>>]

\* lines 69-78 (src/src/graph/mod.rs 59-68 is the same text)
insert_node(st) ==
    /\ pc = "idle"
    /\ LET new_node_id == Len(nodes) IN
        /\ nodes' = Append(nodes, new_node(new_node_id))
        /\ states' = Append(states, st)
        /\ node_rets' = Append(node_rets, new_node_id)
    /\ UNCHANGED <<edges, props, edge_rets, query, scratch, observers>>

\* Faulty variant of push_incoming: the id is pushed onto outgoing of `to`.
push_incoming_as_outgoing(ns, n, e) ==
    [ns EXCEPT ![n + 1].outgoing = Append(@, e)]

push_outgoing(ns, n, e) ==
    [ns EXCEPT ![n + 1].outgoing = Append(@, e)]

push_incoming(ns, n, e) ==
    [ns EXCEPT ![n + 1].incoming = Append(@, e)]

\* Faulty variant of insert_edge: the id is read after the push.
insert_edge_id_after_push(from, to, p) ==
    /\ pc = "idle"
    /\ from \in NodeIds
    /\ to \in NodeIds
    /\ LET new_edge_id == Len(edges) + 1 IN
        /\ edges' = Append(edges, [id |-> new_edge_id, from |-> from, to |-> to])
        /\ props' = Append(props, p)
        /\ nodes' = push_incoming(push_outgoing(nodes, from, new_edge_id), to, new_edge_id)
        /\ edge_rets' = Append(edge_rets, [ret |-> new_edge_id, from |-> from, to |-> to])
    /\ UNCHANGED <<states, node_rets, query, scratch, observers>>

\* lines 79-90 (src/src/graph/mod.rs 69-80 is the same text), for from and to
\* that are node ids
insert_edge(from, to, p) ==
    /\ pc = "idle"
    /\ from \in NodeIds
    /\ to \in NodeIds
    /\ LET new_edge_id == Len(edges) IN
        /\ edges' = Append(edges, [id |-> new_edge_id, from |-> from, to |-> to])
        /\ props' = Append(props, p)
        /\ nodes' = push_incoming(push_outgoing(nodes, from, new_edge_id), to, new_edge_id)
        /\ edge_rets' = Append(edge_rets, [ret |-> new_edge_id, from |-> from, to |-> to])
    /\ UNCHANGED <<states, node_rets, query, scratch, observers>>

\* insert_edge with `from` or `to` out of range: edges.push and props.push
\* come first, then self.nodes[from] panics, or outgoing of `from` is pushed
\* and self.nodes[to] panics. No id is returned; the store stays as the
\* panic left it (it is what an unwinding caller or a Drop sees).
insert_edge_panics(from, to, p) ==
    /\ pc = "idle"
    /\ ~(from \in NodeIds /\ to \in NodeIds)
    /\ LET new_edge_id == Len(edges) IN
        /\ edges' = Append(edges, [id |-> new_edge_id, from |-> from, to |-> to])
        /\ props' = Append(props, p)
        /\ nodes' = IF from \in NodeIds THEN push_outgoing(nodes, from, new_edge_id)
                    ELSE nodes
    /\ pc' = "panicked"
    /\ UNCHANGED <<states, rets, fn, source, targets, result, scratch, observers>>

\* ---------------------------------------------------------- priority queue
\* priority_queue::Heap is declared (mod priority_queue) but its file is not
\* part of the sources; it is modelled from the specification's section 4.3:
\* a binary min-heap of (id, priority) entries kept in an array, duplicates of
\* an id allowed, with the standard sift-up on insert and sift-down on
\* extract_min.
heap_swap(h, i, j) == [h EXCEPT ![i] = h[j], ![j] = h[i]]

RECURSIVE sift_up(_, _)
sift_up(h, i) ==
    IF i = 1 THEN h
    ELSE LET parent == i \div 2 IN
         IF h[i].priority < h[parent].priority
         THEN sift_up(heap_swap(h, i, parent), parent)
         ELSE h

RECURSIVE sift_down(_, _)
sift_down(h, i) ==
    LET l == 2 * i
        r == 2 * i + 1
        m1 == IF l <= Len(h) /\ h[l].priority < h[i].priority THEN l ELSE i
        m2 == IF r <= Len(h) /\ h[r].priority < h[m1].priority THEN r ELSE m1
    IN  IF m2 = i THEN h ELSE sift_down(heap_swap(h, i, m2), m2)

heap_new == <<>>

heap_is_empty(h) == h = <<>>

heap_insert(h, id, priority) ==
    sift_up(Append(h, [id |-> id, priority |-> priority]), Len(h) + 1)

\* extract_min().unwrap(): the entry returned and the heap left
heap_min(h) == h[1]

heap_rest(h) ==
    IF Len(h) = 1 THEN <<>>
    ELSE sift_down([SubSeq(h, 1, Len(h) - 1) EXCEPT ![1] = h[Len(h)]], 1)

\* ---------------------------------------------------------------- best_path
zero_cost == 0

\* vec![x; self.nodes.len()]
vec_of(x) == [i \in 1..Len(nodes) |-> x]

\* Faulty variant of targets_contains: only the first target is compared.
targets_contains_first(ts, s) == ts # <<>> /\ ts[1] = s

\* line 93: targets.contains(&source)
targets_contains(ts, s) == s \in Range(ts)

\* Faulty variant of skip_edge: the closed test is inverted.
skip_edge_inverted(from, to, closed) == to = from \/ ~closed[to + 1]

\* Faulty variant of skip_edge: edges into closed nodes are relaxed again.
skip_edge_self_only(from, to, closed) == to = from

\* line 107: the edges the relaxation loop skips
skip_edge(from, to, closed) == to = from \/ closed[to + 1]

\* Faulty variant of improves: a recorded cost is never replaced.
improves_first_only(best, to_cost) == is_none(best)

\* Faulty variant of improves: the comparison is the wrong way round.
improves_reversed(best, to_cost) == is_none(best) \/ to_cost > unwrap(best)

\* Faulty variant of improves: any different cost replaces what is recorded.
improves_not_equal(best, to_cost) == is_none(best) \/ to_cost # unwrap(best)

\* Faulty variant of improves: an equal cost replaces what is recorded.
improves_or_equal(best, to_cost) == is_none(best) \/ to_cost <= unwrap(best)

\* line 113: the candidate replaces what is recorded
improves(best, to_cost) == is_none(best) \/ to_cost < unwrap(best)

\* lines 105-120: the for loop over the outgoing edges of `from`; t carries
\* the three things the loop writes
RECURSIVE relax(_, _, _, _, _)
relax(out, from, from_cost, closed, t) ==
    IF out = <<>> THEN t
    ELSE LET edge_id == Head(out)
             to == edge(edge_id).to
             to_cost == from_cost + props_cost(edge_props(edge_id))
         IN  IF skip_edge(from, to, closed)
             THEN relax(Tail(out), from, from_cost, closed, t)
             ELSE IF improves(t.best_cost[to + 1], to_cost)
             THEN relax(Tail(out), from, from_cost, closed,
                        [best_cost |-> [t.best_cost EXCEPT ![to + 1] = Some(to_cost)],
                         best_incoming |-> [t.best_incoming EXCEPT ![to + 1] = Some(edge_id)],
                         queue |-> heap_insert(t.queue, to, to_cost)])
             ELSE relax(Tail(out), from, from_cost, closed, t)

\* lines 123-127: filter(best_cost is some).min_by_key(best_cost); min_by_key
\* returns the first of several equally minimum elements
RECURSIVE min_by_key(_, _, _)
min_by_key(ts, bc, acc) ==
    IF ts = <<>> THEN acc
    ELSE LET t == Head(ts) IN
         IF is_none(bc[t + 1]) THEN min_by_key(Tail(ts), bc, acc)
         ELSE IF is_none(acc) \/ unwrap(bc[t + 1]) < unwrap(bc[unwrap(acc) + 1])
         THEN min_by_key(Tail(ts), bc, Some(t))
         ELSE min_by_key(Tail(ts), bc, acc)

\* Faulty variant of cheapest_target: among equal minima the last target wins.
cheapest_target_last(ts, bc) ==
    min_by_key([i \in 1..Len(ts) |-> ts[Len(ts) + 1 - i]], bc, None)

cheapest_target(ts, bc) == min_by_key(ts, bc, None)

\* Faulty variant of path_reverse: the reversal is left out.
path_reverse_missing(path) == path

\* line 138: path.reverse()
path_reverse(path) == [i \in 1..Len(path) |-> path[Len(path) + 1 - i]]

\* lines 130-137: walk back from node_id to src along the recorded incoming
\* edges (inc[n + 1] is Some(edge id) or None), pushing each edge onto path. A
\* walk that comes back to a node it has left never ends ("diverges").
RECURSIVE walk_back(_, _, _, _, _)
walk_back(node_id, src, inc, path, seen) ==
    IF node_id = src THEN [kind |-> "some", path |-> path]
    ELSE IF node_id \in seen THEN [kind |-> "diverges", path |-> <<>>]
    ELSE IF is_some(inc[node_id + 1])
    THEN LET edge_id == unwrap(inc[node_id + 1]) IN
         walk_back(edge(edge_id).from, src, inc, Append(path, edge_id),
                   seen \cup {node_id})
    ELSE [kind |-> "unreachable", path |-> <<>>]

\* lines 128-139: the path from src to node_id, in source-to-target order
reconstruct(node_id, src, inc) ==
    LET w == walk_back(node_id, src, inc, <<>>, {}) IN
    [kind |-> w.kind, path |-> path_reverse(w.path)]

\* line 131: the edge ids recorded in best_incoming
best_path_inc == best_incoming

\* lines 92-101: entry, the early return and the set-up of the search
\* (an id that is not a node id indexes a Vec out of range and panics; the
\* queries are modelled for the ids the insertions returned)
best_path_call(src, ts) ==
    /\ pc = "idle"
    /\ src \in NodeIds
    /\ Range(ts) \subseteq NodeIds
    /\ fn' = "best_path"
    /\ source' = src
    /\ targets' = ts
    /\ IF targets_contains(ts, src)
       THEN /\ pc' = "done"
            /\ result' = [kind |-> "some", path |-> <<>>]
            /\ UNCHANGED scratch
       ELSE /\ pc' = "best_path"
            /\ best_incoming' = vec_of(None)
            /\ best_cost' = vec_of(None)
            /\ is_closed' = vec_of(FALSE)
            /\ queue' = heap_insert(heap_new, src, zero_cost)
            /\ UNCHANGED result
    /\ hist' = hist_new
    /\ UNCHANGED <<store, rets, prev>>

\* line 107: the outgoing edges of `from` that the loop does not skip
open_edges(from, closed) ==
    LET open(e) == ~skip_edge(from, edge(e).to, closed) IN
    Len(SelectSeq(node(from).outgoing, open))

\* Faulty variant of best_path_loop: the costs found are committed into the node states.
best_path_loop_commits_states ==
    /\ pc = "best_path"
    /\ ~heap_is_empty(queue)
    /\ LET from == heap_min(queue).id
           from_cost == heap_min(queue).priority
           closed == [is_closed EXCEPT ![from + 1] = TRUE]
           t == relax(node(from).outgoing, from, from_cost, closed,
                      [best_cost |-> best_cost, best_incoming |-> best_incoming,
                       queue |-> heap_rest(queue)])
       IN  /\ is_closed' = closed
           /\ best_cost' = t.best_cost
           /\ best_incoming' = t.best_incoming
           /\ queue' = t.queue
           /\ states' = [i \in 1..Len(states) |->
                            IF is_some(t.best_cost[i]) THEN [cost |-> t.best_cost[i]]
                            ELSE states[i]]
           /\ hist' = hist_pop(hist, is_closed[from + 1], open_edges(from, closed),
                               queue, t.queue)
    /\ UNCHANGED <<nodes, edges, props, rets, query, prev>>

\* lines 102-121: one iteration of the while loop
best_path_loop ==
    /\ pc = "best_path"
    /\ ~heap_is_empty(queue)
    /\ LET from == heap_min(queue).id
           from_cost == heap_min(queue).priority
           closed == [is_closed EXCEPT ![from + 1] = TRUE]
           t == relax(node(from).outgoing, from, from_cost, closed,
                      [best_cost |-> best_cost, best_incoming |-> best_incoming,
                       queue |-> heap_rest(queue)])
       IN  /\ is_closed' = closed
           /\ best_cost' = t.best_cost
           /\ best_incoming' = t.best_incoming
           /\ queue' = t.queue
           /\ hist' = hist_pop(hist, is_closed[from + 1], open_edges(from, closed),
                               queue, t.queue)
    /\ UNCHANGED <<store, rets, query, prev>>

\* lines 122-139: the queue is empty; choose the target and rebuild the path
best_path_finish ==
    /\ pc = "best_path"
    /\ heap_is_empty(queue)
    /\ LET ct == cheapest_target(targets, best_cost) IN
       result' = IF is_none(ct) THEN [kind |-> "none", path |-> <<>>]
                 ELSE reconstruct(unwrap(ct), source, best_path_inc)
    /\ pc' = "done"
    /\ UNCHANGED <<store, rets, scratch, fn, source, targets, observers>>

\* ------------------------------------------------------------ cheapest_path
\* best_incoming holds Option<BestIncoming(edge id, cost)>; there is no
\* best_cost table and no closed set.
BestIncoming(edge_id, c) == [edge_id |-> edge_id, cost |-> c]

\* Faulty variant of keeps: a recorded edge is never replaced.
keeps_recorded(best, to_cost) == is_some(best)

\* Faulty variant of keeps: an equal-cost candidate replaces what is recorded.
keeps_strict(best, to_cost) == is_some(best) /\ unwrap(best).cost < to_cost

\* line 95: the guard of the match arm that keeps what is recorded
keeps(best, to_cost) == is_some(best) /\ unwrap(best).cost <= to_cost

\* lines 91-103: the for loop over the outgoing edges of `from`
RECURSIVE relax_cheapest(_, _, _)
relax_cheapest(out, from_cost, t) ==
    IF out = <<>> THEN t
    ELSE LET edge_id == Head(out)
             to == edge(edge_id).to
             to_cost == from_cost + props_cost(edge_props(edge_id))
         IN  IF keeps(t.best_incoming[to + 1], to_cost)
             THEN relax_cheapest(Tail(out), from_cost, t)
             ELSE relax_cheapest(Tail(out), from_cost,
                    [best_incoming |-> [t.best_incoming EXCEPT
                                           ![to + 1] = Some(BestIncoming(edge_id, to_cost))],
                     queue |-> heap_insert(t.queue, to, to_cost)])

\* line 111: the edge ids recorded in best_incoming
cheapest_path_inc ==
    [i \in 1..Len(best_incoming) |->
        IF is_some(best_incoming[i]) THEN Some(unwrap(best_incoming[i]).edge_id)
        ELSE None]

\* lines 81-88: entry, the early return and the set-up of the search
cheapest_path_call(src, target) ==
    /\ pc = "idle"
    /\ src \in NodeIds
    /\ target \in NodeIds
    /\ fn' = "cheapest_path"
    /\ source' = src
    /\ targets' = <<target>>
    /\ IF src = target
       THEN /\ pc' = "done"
            /\ result' = [kind |-> "some", path |-> <<>>]
            /\ UNCHANGED scratch
       ELSE /\ pc' = "cheapest_path"
            /\ best_incoming' = vec_of(None)
            /\ queue' = heap_insert(heap_new, src, zero_cost)
            /\ UNCHANGED <<best_cost, is_closed, result>>
    /\ hist' = hist_new
    /\ UNCHANGED <<store, rets, prev>>

\* lines 89-104: one iteration of the while loop
cheapest_path_loop ==
    /\ pc = "cheapest_path"
    /\ ~heap_is_empty(queue)
    /\ LET from == heap_min(queue).id
           from_cost == heap_min(queue).priority
           t == relax_cheapest(node(from).outgoing, from_cost,
                               [best_incoming |-> best_incoming,
                                queue |-> heap_rest(queue)])
       IN  /\ best_incoming' = t.best_incoming
           /\ queue' = t.queue
           /\ hist' = hist_pop(hist, FALSE, Len(node(from).outgoing), queue, t.queue)
    /\ UNCHANGED <<store, rets, query, best_cost, is_closed, prev>>

\* lines 105-119: the queue is empty; rebuild the path to target
\* Faulty variant of cheapest_path_finish: the test for a target without a
\* best incoming edge is left out.
cheapest_path_finish_unchecked ==
    /\ pc = "cheapest_path"
    /\ heap_is_empty(queue)
    /\ result' = reconstruct(targets[1], source, cheapest_path_inc)
    /\ pc' = "done"
    /\ UNCHANGED <<store, rets, scratch, fn, source, targets, observers>>

cheapest_path_finish ==
    /\ pc = "cheapest_path"
    /\ heap_is_empty(queue)
    /\ result' = IF is_none(best_incoming[targets[1] + 1])
                 THEN [kind |-> "none", path |-> <<>>]
                 ELSE reconstruct(targets[1], source, cheapest_path_inc)
    /\ pc' = "done"
    /\ UNCHANGED <<store, rets, scratch, fn, source, targets, observers>>

\* the caller takes the result; the scratch tables and the queue are dropped
query_return ==
    /\ pc = "done"
    /\ pc' = "idle"
    /\ fn' = "none"
    /\ source' = 0
    /\ targets' = <<>>
    /\ best_incoming' = <<>>
    /\ best_cost' = <<>>
    /\ is_closed' = <<>>
    /\ queue' = <<>>
    /\ result' = [kind |-> "pending", path |-> <<>>]
    /\ hist' = hist_new
    /\ UNCHANGED <<store, rets, prev>>

\* the caller takes the result of cheapest_path and keeps it, to compare it
\* with what best_path returns for the same source and target
query_return_keep ==
    /\ pc = "done"
    /\ fn = "cheapest_path"
    /\ prev' = [fn |-> fn, source |-> source, targets |-> targets, result |-> result]
    /\ pc' = "idle"
    /\ fn' = "none"
    /\ source' = 0
    /\ targets' = <<>>
    /\ best_incoming' = <<>>
    /\ best_cost' = <<>>
    /\ is_closed' = <<>>
    /\ queue' = <<>>
    /\ result' = [kind |-> "pending", path |-> <<>>]
    /\ hist' = hist_new
    /\ UNCHANGED <<store, rets>>

\* ------------------------------------------------------------------- Init
Init ==
    /\ nodes = <<>>
    /\ edges = <<>>
    /\ states = <<>>
    /\ props = <<>>
    /\ node_rets = <<>>
    /\ edge_rets = <<>>
    /\ pc = "idle"
    /\ fn = "none"
    /\ source = 0
    /\ targets = <<>>
    /\ best_incoming = <<>>
    /\ best_cost = <<>>
    /\ is_closed = <<>>
    /\ queue = <<>>
    /\ result = [kind |-> "pending", path |-> <<>>]
    /\ hist = hist_new
    /\ prev = no_prev

NodeStates == {[cost |-> None], [cost |-> Some(0)]}
EdgeProps == {[cost |-> c] : c \in 0..MaxCost}

\* The stores are bounded: no more than MaxNodes nodes and MaxEdges edges.
NodeRoom == Len(nodes) < MaxNodes
EdgeRoom == Len(edges) < MaxEdges

NextStore ==
    \/ NodeRoom /\ \E st \in NodeStates : insert_node(st)
    \/ /\ EdgeRoom
       /\ \E from \in NodeIds, to \in NodeIds, p \in EdgeProps : insert_edge(from, to, p)

SpecStore == Init /\ [][NextStore]_vars

\* The store under callers that may pass any node id up to MaxNodes.
AnyNodeIds == 0..MaxNodes

NextAnyIds ==
    \/ NodeRoom /\ \E st \in NodeStates : insert_node(st)
    \/ /\ EdgeRoom
       /\ \E from \in NodeIds, to \in NodeIds, p \in EdgeProps : insert_edge(from, to, p)
    \/ /\ EdgeRoom
       /\ \E from \in AnyNodeIds, to \in AnyNodeIds, p \in EdgeProps :
              insert_edge_panics(from, to, p)

SpecAnyIds == Init /\ [][NextAnyIds]_vars

\* The queries run on stores whose node states are as the tests insert them.
TargetSeqs == UNION {[1..n -> NodeIds] : n \in 0..MaxTargets}

Next ==
    \/ NodeRoom /\ insert_node([cost |-> None])
    \/ /\ EdgeRoom
       /\ \E from \in NodeIds, to \in NodeIds, p \in EdgeProps : insert_edge(from, to, p)
    \/ \E src \in NodeIds, ts \in TargetSeqs : best_path_call(src, ts)
    \/ best_path_loop
    \/ best_path_finish
    \/ \E src \in NodeIds, target \in NodeIds : cheapest_path_call(src, target)
    \/ cheapest_path_loop
    \/ cheapest_path_finish
    \/ query_return

Spec == Init /\ [][Next]_vars

\* A running query is not suspended: best_path is an ordinary function that
\* runs its loop and its return to the end once called.
\* Both queries on one store: cheapest_path(source, target) first, then
\* best_path(source, [target]) with the same arguments; the store is not
\* changed in between. Stores of up to MaxNodes nodes and MaxEdges edges are
\* taken in full, with every source and target. Stores of BothNodes nodes
\* have up to BothEdges edges that lead forward or loop (from <= to) and are
\* inserted in ascending order of (from, to) after the nodes; they are
\* queried from node 0 to the last node.
Small == Len(nodes) <= MaxNodes

Follows(from, to) ==
    IF edges = <<>> THEN TRUE
    ELSE LET last == edges[Len(edges)] IN
         IF last.from = from THEN last.to <= to ELSE last.from < from

BothNodeRoom == NodeRoom \/ (Len(nodes) < BothNodes /\ edges = <<>>)

BothEdgeRoom(from, to) ==
    IF Small THEN EdgeRoom
    ELSE Len(edges) < BothEdges /\ from <= to /\ Follows(from, to)

BothQuery(src, target) == Small \/ (src = 0 /\ target = Len(nodes) - 1)

NextBoth ==
    \/ prev = no_prev /\ BothNodeRoom /\ insert_node([cost |-> None])
    \/ /\ prev = no_prev
       /\ \E from \in NodeIds, to \in NodeIds, p \in EdgeProps :
              BothEdgeRoom(from, to) /\ insert_edge(from, to, p)
    \/ /\ prev = no_prev
       /\ \E src \in NodeIds, target \in NodeIds :
              BothQuery(src, target) /\ cheapest_path_call(src, target)
    \/ cheapest_path_loop
    \/ cheapest_path_finish
    \/ query_return_keep
    \/ prev # no_prev /\ best_path_call(prev.source, prev.targets)
    \/ best_path_loop
    \/ best_path_finish

SpecBoth == Init /\ [][NextBoth]_vars

\* The search loop of best_path does not read targets, so its runs are all
\* covered by the queries with at most one target.
FewTargetSeqs == {<<>>} \cup {<<t>> : t \in NodeIds}

NextBestPath ==
    \/ NodeRoom /\ insert_node([cost |-> None])
    \/ /\ EdgeRoom
       /\ \E from \in NodeIds, to \in NodeIds, p \in EdgeProps : insert_edge(from, to, p)
    \/ \E src \in NodeIds, ts \in FewTargetSeqs : best_path_call(src, ts)
    \/ best_path_loop
    \/ best_path_finish
    \/ query_return

SpecFair ==
    /\ Init
    /\ [][NextBestPath]_vars
    /\ WF_vars(best_path_loop)
    /\ WF_vars(best_path_finish)

\* ============================================================ properties
\* The end node of an edge sequence that starts at s.
EndOf(p, s) == IF p = <<>> THEN s ELSE edge(p[Len(p)]).to

\* p is a connected edge sequence that starts at s.
IsWalkFrom(p, s) ==
    /\ \A i \in 1..Len(p) : p[i] \in EdgeIds
    /\ p # <<>> => edge(p[1]).from = s
    /\ \A i \in 2..Len(p) : edge(p[i]).from = edge(p[i - 1]).to

\* The connected edge sequences from s of at most n edges, the empty one included.
RECURSIVE WalksFrom(_, _)
WalksFrom(s, n) ==
    IF n = 0 THEN {<<>>}
    ELSE LET W == WalksFrom(s, n - 1) IN
         W \cup {Append(x[1], x[2]) :
                    x \in {y \in W \X EdgeIds : edge(y[2]).from = EndOf(y[1], s)}}

\* Every path from s to t of at least one edge, up to as many edges as the
\* graph has (a cheapest path never needs more than Len(nodes) - 1).
PathsTo(s, t) == {p \in WalksFrom(s, Len(edges)) : p # <<>> /\ EndOf(p, s) = t}

Reachable(s, t) == PathsTo(s, t) # {}

HasSelfLoop(p) == \E i \in 1..Len(p) : edge(p[i]).from = edge(p[i]).to

Returned == pc = "done"

\* C1: on a store with non-negative costs, best_path(source, targets) with
\* targets non-empty, source not in targets and some target reachable returns
\* a path from source to a member of targets whose cost is at most the cost of
\* every path from source to any member of targets.
C1_BestPathCheapest ==
    (/\ Returned
     /\ fn = "best_path"
     /\ targets # <<>>
     /\ source \notin Range(targets)
     /\ \E t \in Range(targets) : Reachable(source, t))
    => /\ result.kind = "some"
       /\ \E t \in Range(targets) : result.path \in PathsTo(source, t)
       /\ \A t \in Range(targets) : \A p \in PathsTo(source, t) :
              cost(result.path) <= cost(p)

\* C1 witness: two targets, a returned two-edge path, and a direct edge to a
\* target that costs strictly more than the returned path.
C1_Witness ==
    /\ Returned
    /\ fn = "best_path"
    /\ Len(targets) = 2
    /\ targets[1] # targets[2]
    /\ source \notin Range(targets)
    /\ result.kind = "some"
    /\ Len(result.path) = 2
    /\ \E t \in Range(targets) : \E p \in PathsTo(source, t) :
           Len(p) = 1 /\ cost(p) > cost(result.path)

\* C2: cheapest_path(source, target) with target reachable from source (a
\* source equal to target included) returns a path from source to target whose
\* cost is at most the cost of every path from source to target.
C2_CheapestPathCheapest ==
    (/\ Returned
     /\ fn = "cheapest_path"
     /\ (source = targets[1] \/ Reachable(source, targets[1])))
    => /\ result.kind = "some"
       /\ IsWalkFrom(result.path, source)
       /\ EndOf(result.path, source) = targets[1]
       /\ \A p \in PathsTo(source, targets[1]) : cost(result.path) <= cost(p)

\* C2 witness: a returned two-edge path that beats a direct edge.
C2_Witness ==
    /\ Returned
    /\ fn = "cheapest_path"
    /\ source # targets[1]
    /\ result.kind = "some"
    /\ Len(result.path) = 2
    /\ \E p \in PathsTo(source, targets[1]) :
           Len(p) = 1 /\ cost(p) > cost(result.path)

\* C3: both queries return not-found when no target is reachable from source
\* and source is not a target, and return a path when some target is reachable.
C3_NotFoundIffUnreachable ==
    (Returned /\ fn \in {"best_path", "cheapest_path"})
    => /\ (/\ source \notin Range(targets)
           /\ \A t \in Range(targets) : ~Reachable(source, t))
          => result.kind = "none"
       /\ (\E t \in Range(targets) : Reachable(source, t))
          => result.kind = "some"

\* C3 witness: best_path returns not-found for a target that no path reaches,
\* although source has an outgoing edge to another node.
C3_Witness ==
    /\ Returned
    /\ fn = "best_path"
    /\ targets # <<>>
    /\ source \notin Range(targets)
    /\ result.kind = "none"
    /\ \E e \in EdgeIds : edge(e).from = source /\ edge(e).to # source
    /\ \E e \in EdgeIds : edge(e).to \in Range(targets)

\* C4: if source is a member of targets, best_path returns the empty
\* sequence, of cost zero, without searching (no scratch table was allocated
\* and nothing was queued), whatever the edges and the other targets.
C4_SourceInTargetsEmptyPath ==
    (Returned /\ fn = "best_path" /\ source \in Range(targets))
    => /\ result = [kind |-> "some", path |-> <<>>]
       /\ cost(result.path) = 0
       /\ scratch = <<<<>>, <<>>, <<>>, <<>>>>

\* C4 witness: source is the second of two targets and the first target is
\* one edge away from source.
C4_Witness ==
    /\ Returned
    /\ fn = "best_path"
    /\ Len(targets) = 2
    /\ targets[2] = source
    /\ targets[1] # source
    /\ Reachable(source, targets[1])
    /\ result.path = <<>>

\* C5: no returned path contains a self-loop edge; and, which is what keeps
\* them out, in neither search is a self-loop ever recorded as the best
\* incoming edge of a node other than source.
C5_NoSelfLoopInPath ==
    /\ (Returned /\ result.kind = "some") => ~HasSelfLoop(result.path)
    /\ (pc \in {"best_path", "cheapest_path"} \/ (Returned /\ best_incoming # <<>>))
       => \A n \in NodeIds \ {source} :
            LET inc == IF fn = "best_path" THEN best_path_inc[n + 1]
                       ELSE cheapest_path_inc[n + 1]
            IN  is_some(inc) => edge(unwrap(inc)).from # edge(unwrap(inc)).to

\* C5 witness: cheapest_path returns a non-empty path on a store with a
\* zero-cost self-loop on source and a zero-cost self-loop on the target.
C5_Witness ==
    /\ Returned
    /\ fn = "cheapest_path"
    /\ result.kind = "some"
    /\ result.path # <<>>
    /\ \E e \in EdgeIds : /\ edge(e).from = source /\ edge(e).to = source
                          /\ props_cost(edge_props(e)) = 0
    /\ \E e \in EdgeIds : /\ edge(e).from = targets[1] /\ edge(e).to = targets[1]
                          /\ props_cost(edge_props(e)) = 0

\* C6: a non-empty sequence returned by best_path is a connected path in
\* source-to-target order: it starts at source, each edge starts where the
\* previous one ends, and it ends at a member of targets.
C6_PathConnectedInOrder ==
    (Returned /\ fn = "best_path" /\ result.kind = "some" /\ result.path # <<>>)
    => /\ edge(result.path[1]).from = source
       /\ \A i \in 2..Len(result.path) :
              edge(result.path[i]).from = edge(result.path[i - 1]).to
       /\ edge(result.path[Len(result.path)]).to \in Range(targets)

\* C6 witness: best_path returns a path of two edges.
C6_Witness ==
    /\ Returned
    /\ fn = "best_path"
    /\ result.kind = "some"
    /\ Len(result.path) = 2
    /\ result.path[1] # result.path[2]

\* C7: after best_path returns a (non-empty) path ending at target t, the
\* stored node state of t carries the cost of that path:
\* state(t).cost() = Some(cost of the returned path).
C7_TargetStateCarriesCost ==
    (Returned /\ fn = "best_path" /\ result.kind = "some" /\ result.path # <<>>)
    => state_cost(state(EndOf(result.path, source))) = Some(cost(result.path))

C9_IdsAreInsertionIndices ==
    /\ Len(node_rets) = Len(nodes)
    /\ Len(edge_rets) = Len(edges)
    /\ \A k \in 1..Len(node_rets) : node_rets[k] = k - 1 /\ node(node_rets[k]).id = node_rets[k]
    /\ \A k \in 1..Len(edge_rets) :
        /\ edge_rets[k].ret = k - 1
        /\ edge(edge_rets[k].ret).id = edge_rets[k].ret
        /\ edge(edge_rets[k].ret).from = edge_rets[k].from
        /\ edge(edge_rets[k].ret).to = edge_rets[k].to
    /\ \A j, k \in 1..Len(node_rets) : j # k => node_rets[j] # node_rets[k]
    /\ \A j, k \in 1..Len(edge_rets) : j # k => edge_rets[j].ret # edge_rets[k].ret

\* C9 witness: two parallel edges and a self-loop have been inserted.
C9_Witness ==
    /\ Len(node_rets) >= 2
    /\ \E i, j, k \in 1..Len(edge_rets) :
        /\ i # j
        /\ edge_rets[i].from = edge_rets[j].from
        /\ edge_rets[i].to = edge_rets[j].to
        /\ edge_rets[i].from # edge_rets[i].to
        /\ edge_rets[k].from = edge_rets[k].to

EdgeIdSeq == [i \in 1..Len(edges) |-> i - 1]

OutgoingOf(n) ==
    LET from_n(e) == edge(e).from = n IN SelectSeq(EdgeIdSeq, from_n)

IncomingOf(n) ==
    LET to_n(e) == edge(e).to = n IN SelectSeq(EdgeIdSeq, to_n)

AdjacencyExact ==
    \A n \in NodeIds : /\ node(n).outgoing = OutgoingOf(n)
                       /\ node(n).incoming = IncomingOf(n)

\* A step changes an adjacency list only by appending the id of the edge it
\* inserts, to outgoing of that edge's from and to incoming of its to.
AdjacencyFrame ==
    \A n \in NodeIds :
        /\ node(n).outgoing' # node(n).outgoing
           => /\ Len(edges') = Len(edges) + 1
              /\ edges'[Len(edges')].from = n
              /\ node(n).outgoing' = Append(node(n).outgoing, Len(edges))
        /\ node(n).incoming' # node(n).incoming
           => /\ Len(edges') = Len(edges) + 1
              /\ edges'[Len(edges')].to = n
              /\ node(n).incoming' = Append(node(n).incoming, Len(edges))

\* C10: for every node n, node(n).outgoing is exactly the ids of the edges
\* with from = n in insertion order and node(n).incoming those with to = n (a
\* self-loop once in each list of its node), and insert_edge(from, to, _)
\* changes no adjacency list other than outgoing of from and incoming of to.
C10_AdjacencyLists == []AdjacencyExact /\ [][AdjacencyFrame]_vars

\* C10 witness: a node with a self-loop, a second outgoing edge and a second
\* incoming edge.
C10_Witness ==
    \E n \in NodeIds :
        /\ \E e \in EdgeIds : edge(e).from = n /\ edge(e).to = n
        /\ Len(node(n).outgoing) = 2
        /\ Len(node(n).incoming) = 2

(***************************************************************************)
(* C11: in every state of the store reachable by insert_node and           *)
(* insert_edge calls, nodes and states have the same length, edges and     *)
(* props have the same length, every edge id in an incoming or outgoing    *)
(* list is the id of an existing edge, and every edge's from and to are    *)
(* ids of existing nodes.                                                  *)
(***************************************************************************)
C11_StoreWellFormed ==
    /\ Len(nodes) = Len(states)
    /\ Len(edges) = Len(props)
    /\ \A n \in NodeIds :
        /\ Range(node(n).incoming) \subseteq EdgeIds
        /\ Range(node(n).outgoing) \subseteq EdgeIds
    /\ \A e \in EdgeIds : edge(e).from \in NodeIds /\ edge(e).to \in NodeIds

(***************************************************************************)
(* C20: insert_edge with from or to out of range fails and adds nothing:   *)
(* edges, props and every node's incoming and outgoing lists are as before *)
(* the call.                                                               *)
(***************************************************************************)
C20_FailedInsertAddsNothing ==
    [][pc' = "panicked" => UNCHANGED <<edges, props, nodes>>]_vars

(***************************************************************************)
(* C12: in best_path, a pop that names an already closed node is           *)
(* discarded: it relaxes nothing, so best_cost, best_incoming and the      *)
(* closed flags are unchanged and the queue only loses the popped entry.   *)
(***************************************************************************)
C12_StalePopChangesNothing ==
    [][(/\ pc = "best_path"
        /\ ~heap_is_empty(queue)
        /\ is_closed[heap_min(queue).id + 1])
       => /\ best_cost' = best_cost
          /\ best_incoming' = best_incoming
          /\ is_closed' = is_closed
          /\ queue' = heap_rest(queue)]_vars

\* A popped entry named a closed node that still had an outgoing edge to a
\* node that is not closed.
C12_Witness ==
    /\ pc = "best_path"
    /\ hist.stale
    /\ hist.tried > 0

\* The costs of the paths from s to n, the empty path from s to s included.
PathCosts(s, n) ==
    {cost(p) : p \in PathsTo(s, n)} \cup (IF n = s THEN {zero_cost} ELSE {})

\* The minimum cost of any path from s to n (n reachable from s).
MinPathCost(s, n) == CHOOSE c \in PathCosts(s, n) : \A d \in PathCosts(s, n) : c <= d

\* The entry about to be popped for a node that is not closed yet carries
\* the minimum path cost of that node.
C13_PoppedCostIsMinimum ==
    (pc = "best_path" /\ ~heap_is_empty(queue) /\ ~is_closed[heap_min(queue).id + 1])
    => /\ PathCosts(source, heap_min(queue).id) # {}
       /\ heap_min(queue).priority = MinPathCost(source, heap_min(queue).id)

\* A closed node other than source has its minimum path cost recorded.
C13_ClosedCostIsMinimum ==
    pc = "best_path" =>
        \A n \in NodeIds : (is_closed[n + 1] /\ n # source) =>
            best_cost[n + 1] = Some(MinPathCost(source, n))

\* One step of the search leaves what is recorded for a closed node alone.
C13_ClosedIsFinalStep ==
    pc = "best_path" =>
        \A n \in NodeIds : is_closed[n + 1] =>
            /\ is_closed'[n + 1]
            /\ best_cost'[n + 1] = best_cost[n + 1]
            /\ best_incoming'[n + 1] = best_incoming[n + 1]

(***************************************************************************)
(* C13: in best_path with non-negative costs, the entry with which a node  *)
(* is first popped and closed carries the minimum cost of any path from    *)
(* source to that node, a closed node other than source has that minimum   *)
(* recorded, and no later step of the query changes the best_cost or       *)
(* best_incoming of a closed node.                                         *)
(***************************************************************************)
C13_ClosedIsFinal ==
    /\ [](C13_PoppedCostIsMinimum /\ C13_ClosedCostIsMinimum)
    /\ [][C13_ClosedIsFinalStep]_vars

\* A node was closed with a cost cheaper than the direct edge that discovered
\* it first, and the loop has run on after closing it.
C13_Witness ==
    /\ pc = "best_path"
    /\ ~heap_is_empty(queue)
    /\ \E n \in NodeIds \ {source} :
        /\ is_closed[n + 1]
        /\ is_some(best_incoming[n + 1])
        /\ \E e \in EdgeIds :
            /\ e < unwrap(best_incoming[n + 1])
            /\ edge(e).from = source
            /\ edge(e).to = n
            /\ props_cost(edge_props(e)) > unwrap(best_cost[n + 1])

\* The search loop of best_path has ended: the queue is empty.
LoopEnded == pc = "best_path" /\ heap_is_empty(queue)

(***************************************************************************)
(* C14 as stated: when the queue empties at the end of the search loop of  *)
(* best_path, every node reachable from source, source included, has a     *)
(* recorded best_cost, and every unreachable node has best_cost None.      *)
(***************************************************************************)
C14_ReachableRecordedWithSource ==
    LoopEnded =>
        \A n \in NodeIds :
            is_some(best_cost[n + 1]) <=> (n = source \/ Reachable(source, n))

(***************************************************************************)
(* C14 amended: when the queue empties at the end of the search loop of    *)
(* best_path, every node other than source that is reachable from source   *)
(* has a recorded best_cost, the minimum path cost, and source itself and  *)
(* every unreachable node have best_cost None.                             *)
(***************************************************************************)
C14_ReachableRecorded ==
    LoopEnded =>
        /\ best_cost[source + 1] = None
        /\ \A n \in NodeIds \ {source} :
               best_cost[n + 1] = IF Reachable(source, n)
                                  THEN Some(MinPathCost(source, n))
                                  ELSE None

\* The loop ended on a store with a cycle through source, a node reached
\* over two edges and a node that cannot be reached.
C14_Witness ==
    /\ LoopEnded
    /\ Reachable(source, source)
    /\ \E n \in NodeIds \ {source} : is_some(best_cost[n + 1])
    /\ \E n \in NodeIds \ {source} : ~Reachable(source, n)

\* How many entries of queue q name node n.
EntriesOf(q, n) == Cardinality({i \in 1..Len(q) : q[i].id = n})

\* What a query has recorded for node n: None, or the pair of the best
\* incoming edge and its cost.
RecordOf(inc, bc, n) ==
    IF fn = "best_path"
    THEN IF is_some(bc[n + 1])
         THEN Some(BestIncoming(unwrap(inc[n + 1]), unwrap(bc[n + 1])))
         ELSE None
    ELSE inc[n + 1]

\* One iteration of either search loop, seen from node n: the record of n is
\* replaced only by a strictly cheaper one, and then an entry with the new
\* cost is pushed; when it is not replaced nothing is pushed for n.
StrictImprovementStep(n) ==
    LET old == RecordOf(best_incoming, best_cost, n)
        new == RecordOf(best_incoming', best_cost', n)
        rest == heap_rest(queue)
    IN  /\ new # old =>
            /\ is_some(new)
            /\ is_none(old) \/ unwrap(new).cost < unwrap(old).cost
            /\ EntriesOf(queue', n) > EntriesOf(rest, n)
            /\ \E i \in 1..Len(queue') :
                   queue'[i] = [id |-> n, priority |-> unwrap(new).cost]
        /\ new = old => EntriesOf(queue', n) = EntriesOf(rest, n)

(***************************************************************************)
(* C15: in best_path and cheapest_path a node's recorded best incoming     *)
(* edge and cost are replaced only by a strictly cheaper candidate: an     *)
(* equal-cost candidate overwrites nothing and pushes nothing, the         *)
(* recorded cost of a node strictly decreases, and the first-discovered    *)
(* cheapest incoming edge is kept.                                         *)
(***************************************************************************)
C15_StrictImprovementOnly ==
    [][(pc \in {"best_path", "cheapest_path"} /\ ~heap_is_empty(queue))
       => \A n \in NodeIds : StrictImprovementStep(n)]_vars

\* best_path has returned on a store with two parallel edges of equal cost
\* into a node: the second was an equal-cost candidate in the iteration that
\* recorded the first, and the first is still the recorded one.
C15_Witness ==
    /\ Returned
    /\ fn = "best_path"
    /\ best_incoming # <<>>
    /\ \E e1 \in EdgeIds, e2 \in EdgeIds :
        /\ e1 < e2
        /\ edge(e1).from = edge(e2).from
        /\ edge(e1).to = edge(e2).to
        /\ edge(e1).to # edge(e1).from
        /\ props_cost(edge_props(e1)) = props_cost(edge_props(e2))
        /\ best_incoming[edge(e1).to + 1] = Some(e1)

\* Target number i of the query is the one the specification selects: it has
\* a recorded cost, no target has a smaller one, and every earlier target
\* with a recorded cost has a larger one.
IsSelectedTarget(i) ==
    LET key(j) == best_cost[targets[j] + 1] IN
    /\ is_some(key(i))
    /\ \A j \in 1..Len(targets) : is_some(key(j)) =>
           /\ unwrap(key(i)) <= unwrap(key(j))
           /\ j < i => unwrap(key(i)) < unwrap(key(j))

(***************************************************************************)
(* C16: best_path with several targets returns the path that ends at the   *)
(* target whose recorded best_cost is the minimum among the targets that   *)
(* have one; among targets of equal minimum cost the first in the targets  *)
(* sequence is chosen.                                                     *)
(***************************************************************************)
C16_CheapestTargetFirstOnTies ==
    (Returned /\ fn = "best_path" /\ source \notin Range(targets)) =>
        IF \E j \in 1..Len(targets) : is_some(best_cost[targets[j] + 1])
        THEN /\ result.kind = "some"
             /\ \E i \in 1..Len(targets) :
                    /\ IsSelectedTarget(i)
                    /\ EndOf(result.path, source) = targets[i]
        ELSE result.kind = "none"

\* Two different targets were reached with the same recorded cost and the
\* returned path ends at the first of them.
C16_Witness ==
    /\ Returned
    /\ fn = "best_path"
    /\ source \notin Range(targets)
    /\ Len(targets) = 2
    /\ targets[1] # targets[2]
    /\ is_some(best_cost[targets[1] + 1])
    /\ best_cost[targets[1] + 1] = best_cost[targets[2] + 1]
    /\ result.kind = "some"
    /\ EndOf(result.path, source) = targets[1]

\* The best incoming edges the running query has recorded.
RecordedIncoming == IF fn = "best_path" THEN best_path_inc ELSE cheapest_path_inc

(***************************************************************************)
(* C17: path reconstruction of best_path and cheapest_path always ends at  *)
(* source after finitely many steps: walking back over best_incoming never *)
(* revisits a node and never reaches a node other than source that has no  *)
(* best_incoming, so unreachable!() is never executed, also with zero-cost *)
(* cycles and edges leading back into source.                              *)
(***************************************************************************)
C17_WalkBackEndsAtSource ==
    /\ pc \in {"best_path", "cheapest_path"} =>
           \A n \in NodeIds : is_some(RecordedIncoming[n + 1]) =>
               reconstruct(n, source, RecordedIncoming).kind = "some"
    /\ Returned => result.kind \in {"none", "some"}

\* cheapest_path returned a path although source lies on a zero-cost cycle
\* and has itself a recorded best incoming edge.
C17_Witness ==
    /\ Returned
    /\ fn = "cheapest_path"
    /\ result.kind = "some"
    /\ result.path # <<>>
    /\ is_some(best_incoming[source + 1])
    /\ \E p \in PathsTo(source, source) : cost(p) = 0 /\ ~HasSelfLoop(p)

\* The pushes and pops of a best_path search stay within the number of edges,
\* and the queue holds what was pushed and not yet popped.
C18_PushesBounded ==
    /\ (fn = "best_path" /\ pc \in {"best_path", "done"}) =>
           /\ hist.pushes <= Len(edges)
           /\ hist.pops <= Len(edges) + 1
    /\ pc = "best_path" => Len(queue) = 1 + hist.pushes - hist.pops
    /\ (Returned /\ fn = "best_path") => heap_is_empty(queue)

(***************************************************************************)
(* C18: every best_path query terminates with an empty queue, and the      *)
(* queue entries pushed by relaxations are at most as many as the edges,   *)
(* so at most |E| + 1 entries are pushed and popped in a query.            *)
(***************************************************************************)
C18_TerminatesWithinEdges ==
    /\ []C18_PushesBounded
    /\ (pc = "best_path") ~> (Returned /\ heap_is_empty(queue))

\* A query returned after pushing one entry for every edge of a store with
\* MaxEdges edges, one of them stale.
C18_Witness ==
    /\ Returned
    /\ fn = "best_path"
    /\ Len(edges) = MaxEdges
    /\ hist.pushes = Len(edges)
    /\ hist.pops = Len(edges) + 1
    /\ \E n \in NodeIds : Len(node(n).incoming) > 1 /\ is_some(best_cost[n + 1])

\* best_path has returned for the source and target of the cheapest_path
\* query made before it on the same store.
BothReturned == Returned /\ fn = "best_path" /\ prev.fn = "cheapest_path"

\* p is a path from the source to the target of the two queries.
IsAnswer(p) == IsWalkFrom(p, source) /\ EndOf(p, source) = targets[1]

====
